---- MODULE Spec2Model ----
(***************************************************************************)
(* Model of src/audio_transcriber.py (class AudioTranscriberApp): the      *)
(* chunking and transcription pipeline run by a worker thread              *)
(* (transcribe_audio), the UI thread's entry point (start_transcription),  *)
(* and the collaborators they call (needs_splitting, compress_audio,       *)
(* split_audio_file, cleanup_temp_files).                                  *)
(*                                                                         *)
(* Sizes are in bytes and durations in milliseconds.  The code compares    *)
(* os.path.getsize(p) / (1024 * 1024) with a number of megabytes and       *)
(* len(audio) / 1000.0 with a number of seconds; both divisions are exact  *)
(* enough at these magnitudes that the comparison is the one between the   *)
(* byte count and mb * 1024 * 1024, and between the millisecond count and  *)
(* seconds * 1000.                                                         *)
(*                                                                         *)
(* Text is a sequence of string tokens; string concatenation is \o.        *)
(*                                                                         *)
(* Environment assumptions: posting to the UI (window.after), logging and  *)
(* the message boxes return without raising, and a file the job has just   *)
(* probed or created can be opened for reading when it is submitted.       *)
(***************************************************************************)
EXTENDS Integers, Sequences, FiniteSets, TLC

\* ---------------------------------------------------------------- bounds

\* Number of worker threads that can be alive at once in the model.
MaxThreads == 2

\* Longest decoded input, in units of the splitter's chunk ceiling.
MaxChunks == 2

\* ------------------------------------------------------ program constants

max_file_size_mb == 25

max_duration_seconds == 1400

\* Defaults of split_audio_file's parameters.
split_max_size_mb == 24

split_max_duration_seconds == 1350

BytesPerMb == 1024 * 1024

\* ------------------------------------------------------------- utilities

Min(a, b) == IF a <= b THEN a ELSE b

\* math.ceil(a / b) for a >= 0, b > 0.
Ceil(a, b) == IF a % b = 0 THEN a \div b ELSE (a \div b) + 1

\* str(k) for the ordinals the model reaches.
Str(k) == <<"1", "2", "3", "4", "5", "6">>[k]

SeqToSet(s) == {s[k] : k \in 1..Len(s)}

\* A progress fraction n/d is the pair <<n, d>>.
Frac(n, d) == <<n, d>>

\* ------------------------------------------------------------ file names

\* The file selected in the UI.
OriginalPath == <<"original", 0, 0>>

\* Mutant: the compressed audio is written over the selected file.
CompressInPlace(j) == OriginalPath

\* os.path.join(temp_dir, f"compressed_audio_{int(time.time())}.mp3").  The
\* time stamp is modelled by the thread j: threads alive at once write
\* different files, and a later job may meet a name an earlier job used.
CompressedPath(j) == <<"compressed_audio", j, 0>>

\* os.path.join(temp_dir, f"audio_chunk_{int(time.time())}_{i+1}.mp3"), i 0-based.
ChunkPath(j, i) == <<"audio_chunk", j, i + 1>>

\* ---------------------------------------------------- environment inputs

\* Byte sizes a file can have: exactly at the limit (the largest size that
\* fits) and one byte over it.
Sizes == {max_file_size_mb * BytesPerMb, max_file_size_mb * BytesPerMb + 1}


\* Mutant: the ceiling is the size-derived bound alone.
max_chunk_duration_size_only(max_size_mb, max_dur_s) ==
    ((max_size_mb * BytesPerMb) \div 8192) * 1000

\* max_chunk_duration_ms of split_audio_file.  Python computes
\* (max_size_mb * 1024 * 1024 * 1000) // 8192; 1024 * 1024 is a multiple of
\* 8192, so the quotient is taken before the factor 1000 to stay in TLC's
\* integer range.
max_chunk_duration_ms(max_size_mb, max_dur_s) ==
    Min(max_dur_s * 1000, ((max_size_mb * BytesPerMb) \div 8192) * 1000)

\* The chunk ceiling split_audio_file computes with its default parameters.
DefaultCeilingMs == max_chunk_duration_ms(split_max_size_mb, split_max_duration_seconds)

\* The largest size that fits and the smallest that does not.
AtLimitSize == max_file_size_mb * BytesPerMb

OverLimitSize == max_file_size_mb * BytesPerMb + 1

\* Decoded lengths in ms of the files that fit by size: at and just over the
\* service's duration limit.
LimitDurations == {max_duration_seconds * 1000, max_duration_seconds * 1000 + 1}

\* Decoded lengths in ms of the files that are too big: empty, and at and just
\* over each multiple of the chunk ceiling.
SplitDurations ==
    {0} \cup {k * DefaultCeilingMs : k \in 1..MaxChunks}
        \cup {k * DefaultCeilingMs + 1 : k \in 1..(MaxChunks - 1)}

\* What the filesystem and the decoder answer for the selected file:
\* sizeErr - os.path.getsize raises; probeErr - AudioSegment.from_file raises.
Audios ==
    {[size |-> AtLimitSize, sizeErr |-> FALSE, dur |-> d, probeErr |-> FALSE] : d \in LimitDurations}
    \cup {[size |-> OverLimitSize, sizeErr |-> FALSE, dur |-> d, probeErr |-> FALSE] : d \in SplitDurations}
    \cup {[size |-> s, sizeErr |-> FALSE, dur |-> 0, probeErr |-> TRUE] : s \in Sizes}
    \cup {[size |-> 0, sizeErr |-> TRUE, dur |-> 0, probeErr |-> FALSE]}

NoAudio == [size |-> 0, sizeErr |-> FALSE, dur |-> 0, probeErr |-> FALSE]

\* What one run of the bundled ffmpeg on the input can do: the binary is
\* missing, it exits non-zero (with or without an output file), or it exits 0
\* and the output has some size and either a duration or a failing probe.
CompressOutcomes ==
    {[kind |-> "notfound", wrote |-> FALSE, size |-> 0, dur |-> 0, probeErr |-> FALSE]}
    \cup {[kind |-> "nonzero", wrote |-> b, size |-> 0, dur |-> 0, probeErr |-> FALSE] : b \in BOOLEAN}
    \cup {[kind |-> "ok", wrote |-> TRUE, size |-> s, dur |-> d, probeErr |-> FALSE] :
            s \in Sizes, d \in LimitDurations}
    \cup {[kind |-> "ok", wrote |-> TRUE, size |-> s, dur |-> 0, probeErr |-> TRUE] : s \in Sizes}

\* What one chunk.export can do: raise (the output file may already have been
\* opened for writing), or write a file of some size.
ExportOutcomes ==
    {[raised |-> TRUE, wrote |-> b, size |-> 0] : b \in BOOLEAN}
    \cup {[raised |-> FALSE, wrote |-> TRUE, size |-> s] : s \in Sizes}

\* The text the service returns for a file: it tells the files apart.
ServiceText(f) == <<"words of " \o f[1], Str(f[3] + 1)>>

\* str(e) of the exceptions the service call raises.
Reasons == {"rate limit"}

\* What one transcription request can do: return text or raise.
ServiceOutcomes(f) ==
    {[ok |-> TRUE, text |-> ServiceText(f), reason |-> ""]}
    \cup {[ok |-> FALSE, text |-> <<>>, reason |-> r] : r \in Reasons}

\* The fields validate_inputs reads, as truth values: the API key is
\* non-empty, the client is set, a path is selected, the file exists, an
\* output directory is given, it exists or can be created, and the filename
\* is non-empty after strip().
FormFields == {"api_key", "client", "audio_file_path", "audio_exists",
               "output_directory", "dir_ok", "output_filename"}

\* The forms the model submits: complete, or with one field failing its check.
Forms == {[x \in FormFields |-> TRUE]}
         \cup {[x \in FormFields |-> x # bad] : bad \in FormFields}

\* --------------------------------------------------------- pure functions

\* Mutant: the size is not compared.
ExceedsDurationOnly(size, dur) == dur > max_duration_seconds * 1000

\* The comparison of lines 188, 271, 325 and 337: size in bytes, duration in ms.
ExceedsLimits(size, dur) ==
    size > max_file_size_mb * BytesPerMb \/ dur > max_duration_seconds * 1000

\* get_audio_duration: (duration, None) or (None, error_msg).
get_audio_duration(dur, probeErr) ==
    IF probeErr THEN [known |-> FALSE, ms |-> 0, error |-> TRUE]
    ELSE [known |-> TRUE, ms |-> dur, error |-> FALSE]

\* needs_splitting: (needs_split, file_size_mb, duration, error).
needs_splitting(a) ==
    IF a.sizeErr
    THEN [needs_split |-> FALSE, size |-> 0, known |-> TRUE, ms |-> 0, error |-> "check"]
    ELSE LET d == get_audio_duration(a.dur, a.probeErr) IN
         IF d.error
         THEN [needs_split |-> FALSE, size |-> a.size, known |-> FALSE, ms |-> 0, error |-> "probe"]
         ELSE [needs_split |-> ExceedsLimits(a.size, d.ms), size |-> a.size,
               known |-> TRUE, ms |-> d.ms, error |-> "none"]

\* Mutant: the compressed file is not compared with the limits.
compress_audio_unverified(o) ==
    IF o.kind = "notfound" THEN [success |-> FALSE, size |-> 0, ms |-> 0, why |-> "notfound"]
    ELSE IF o.kind = "nonzero" THEN [success |-> FALSE, size |-> 0, ms |-> 0, why |-> "returncode"]
    ELSE IF o.probeErr THEN [success |-> FALSE, size |-> o.size, ms |-> 0, why |-> "probe"]
    ELSE [success |-> TRUE, size |-> o.size, ms |-> o.dur, why |-> "none"]

\* compress_audio, given what ffmpeg and the re-probe did: (success, result).
compress_audio(o) ==
    IF o.kind = "notfound" THEN [success |-> FALSE, size |-> 0, ms |-> 0, why |-> "notfound"]
    ELSE IF o.kind = "nonzero" THEN [success |-> FALSE, size |-> 0, ms |-> 0, why |-> "returncode"]
    ELSE LET d == get_audio_duration(o.dur, o.probeErr) IN
         IF d.error THEN [success |-> FALSE, size |-> o.size, ms |-> 0, why |-> "probe"]
         ELSE IF ExceedsLimits(o.size, d.ms)
              THEN [success |-> FALSE, size |-> o.size, ms |-> d.ms, why |-> "limits"]
              ELSE [success |-> TRUE, size |-> o.size, ms |-> d.ms, why |-> "none"]

\* Mutant: the quotient is rounded down.
num_chunks_floor(total_ms, ceiling_ms) == total_ms \div ceiling_ms

\* num_chunks = math.ceil(total_duration_ms / max_chunk_duration_ms).
num_chunks(total_ms, ceiling_ms) == Ceil(total_ms, ceiling_ms)

\* start_ms and end_ms of chunk i (0-based).
start_ms(i, ceiling_ms) == i * ceiling_ms

end_ms(i, ceiling_ms, total_ms) == Min((i + 1) * ceiling_ms, total_ms)

\* f"[Error transcribing chunk {i+1}: {str(e)}]", i 0-based.
ErrorPlaceholder(i, reason) == <<"[Error transcribing chunk ", Str(i + 1), ": ", reason, "]">>

\* Mutant: the separator carries the 0-based index.
PartSeparatorZeroBased(i) == <<"\n\n--- Part ", Str(i), " ---\n\n">>

\* f"\n\n--- Part {i+1} ---\n\n", i 0-based.
PartSeparator(i) == <<"\n\n--- Part ", Str(i + 1), " ---\n\n">>

\* The combining loop of lines 850-854 over the first n fragments.
RECURSIVE JoinParts(_, _)
JoinParts(ts, n) ==
    IF n = 0 THEN <<>>
    ELSE JoinParts(ts, n - 1) \o (IF n - 1 > 0 THEN PartSeparator(n - 1) ELSE <<>>) \o ts[n]

\* combined_transcript of lines 846-854.
CombineTranscripts(ts) == IF Len(ts) = 1 THEN ts[1] ELSE JoinParts(ts, Len(ts))

\* The fragment the transcription loop appends for one request's outcome
\* (lines 830 and 840).
Fragment(i, res) == IF res.ok THEN res.text ELSE ErrorPlaceholder(i, res.reason)

\* Mutant: the existence of the selected file is not checked.
validate_inputs_lenient(f) ==
    /\ f.api_key /\ f.client
    /\ f.audio_file_path
    /\ f.output_directory
    /\ f.dir_ok
    /\ f.output_filename

\* The message box validate_inputs shows, by the order of its checks (lines
\* 685-713); "ok" when it returns True.
validation_message(f) ==
    IF ~f.api_key \/ ~f.client THEN "Please enter and save your OpenAI API key first."
    ELSE IF ~f.audio_file_path THEN "Please select an audio file."
    ELSE IF ~f.audio_exists THEN "The selected audio file does not exist."
    ELSE IF ~f.output_directory THEN "Please specify an output directory."
    ELSE IF ~f.dir_ok THEN "Cannot create output directory"
    ELSE IF ~f.output_filename THEN "Please specify a filename."
    ELSE "ok"

\* validate_inputs.
validate_inputs(f) ==
    /\ f.api_key /\ f.client
    /\ f.audio_file_path
    /\ f.audio_exists
    /\ f.output_directory
    /\ f.dir_ok
    /\ f.output_filename

\* ------------------------------------------------------------------ state

VARIABLES
    is_transcribing,   \* self.is_transcribing
    transcribed_text,  \* self.transcribed_text
    temp_files,        \* self.temp_files, a list of paths
    disk,              \* files that exist: the selected file and the temporary files
    w,                 \* per thread: position in transcribe_audio and its locals
    validation         \* what the latest call of validate_inputs answered

vars == <<is_transcribing, transcribed_text, temp_files, disk, w, validation>>

Jobs == 1..MaxThreads

\* The locals of a thread that is not running ("idle": not created yet, or
\* ended).  Beside the locals of
\* transcribe_audio and split_audio_file the record keeps the history of what
\* the job did: submitted, calls, posts (the values given to update_progress),
\* status (the last message given to update_status), created, written,
\* write_error (the write of line 859-860 raised), copy_button_posted (line
\* 870 ran), n_compress, n_split, delete_failed, text_at_start, exports (one
\* record per chunk.export call: the chunk's ordinal, the bitrate, whether it
\* raised and the size of what it wrote), split_error (what made
\* split_audio_file return an error: <<"none", 0>>, <<"exception", 0>> for
\* the handler of line 347, or <<"chunk", k>> for the message of line 338
\* about chunk k), compress_why (why compress_audio returned what it did),
\* undeleted (the files whose os.remove raised in cleanup_temp_files),
\* ffmpeg (what the run of ffmpeg in compress_audio did), form (the form
\* start_transcription validated when it created the thread).  The widgets the posted
\* callbacks redraw are not modelled.
InitLocals ==
    [pc |-> "idle",
     audio |-> NoAudio,
     needs_split |-> FALSE,
     analysis |-> "none",
     split_input |-> OriginalPath,
     compressed_ms |-> 0,
     total_duration_ms |-> 0,
     ceiling_ms |-> 0,
     n_chunks |-> 0,
     split_i |-> 0,
     chunk_size |-> 0,
     chunks |-> <<>>,
     files_to_transcribe |-> <<>>,
     all_transcripts |-> <<>>,
     i |-> 0,
     combined_transcript |-> <<>>,
     in_flight |-> <<>>,
     submitted |-> <<>>,
     calls |-> <<>>,
     posts |-> <<>>,
     status |-> "none",
     created |-> {},
     written |-> <<>>,
     write_error |-> FALSE,
     copy_button_posted |-> FALSE,
     n_compress |-> 0,
     n_split |-> 0,
     delete_failed |-> FALSE,
     text_at_start |-> <<>>,
     exports |-> <<>>,
     split_error |-> <<"none", 0>>,
     compress_why |-> "unset",
     undeleted |-> {},
     ffmpeg |-> [kind |-> "unset", wrote |-> FALSE, size |-> 0, dur |-> 0, probeErr |-> FALSE],
     form |-> [x \in FormFields |-> TRUE]]

Init ==
    /\ is_transcribing = FALSE
    /\ transcribed_text = <<>>
    /\ temp_files = <<>>
    /\ disk = {OriginalPath}
    /\ w = [j \in Jobs |-> InitLocals]
    /\ validation = "none"

\* ------------------------------------------------------------- UI thread

\* Mutant: the guard is not consulted.
AlreadyRunningUnchecked == FALSE

\* Line 722: the already-running guard of start_transcription.
AlreadyRunning == is_transcribing

\* threading.Thread(target=self.transcribe_audio): the thread it creates.
FreeThreads == {j \in Jobs : w[j].pc = "idle"}

NewThread == CHOOSE j \in FreeThreads : \A k \in FreeThreads : j <= k

\* start_transcription, called with the form as the user left it and the
\* selected file as the filesystem and decoder will answer for it.  Lines 728,
\* 730 and 731 change widgets only.
start_transcription(form, a) ==
    /\ AlreadyRunning \/ FreeThreads # {}
    /\ IF AlreadyRunning
       THEN UNCHANGED vars
       ELSE IF ~validate_inputs(form)
       THEN /\ validation' = validation_message(form)
            /\ UNCHANGED <<is_transcribing, transcribed_text, temp_files, disk, w>>
       ELSE /\ is_transcribing' = TRUE
            /\ w' = [w EXCEPT ![NewThread] =
                        [InitLocals EXCEPT !.pc = "analyze", !.audio = a,
                                           !.text_at_start = transcribed_text,
                                           !.form = form]]
            /\ validation' = "ok"
            /\ UNCHANGED <<transcribed_text, temp_files, disk>>

\* A click on the button.  While a job runs the request's arguments are not
\* read, so one choice of them stands for all.
StartRequest ==
    \E form \in (IF is_transcribing THEN {[x \in FormFields |-> TRUE]} ELSE Forms),
       a \in (IF is_transcribing THEN {NoAudio} ELSE Audios) :
        start_transcription(form, a)

\* copy_to_clipboard (lines 654-670): what the clipboard holds after the call,
\* given what it held before.  An empty text is not copied (line 666).
copy_to_clipboard(clipboard) ==
    IF transcribed_text # <<>> THEN transcribed_text ELSE clipboard

\* ---------------------------------------------------------- worker thread

\* The worker's locals become l2 after update_progress(v) for each v of vs.
Step(j, l2, vs) ==
    /\ w' = [w EXCEPT ![j] = [l2 EXCEPT !.posts = @ \o vs]]

\* Mutant: the error of needs_splitting is not looked at.
AnalysisErrorIgnored == "transcribe"

\* Where the worker goes after the return of line 756: to the finally clause.
AfterAnalysisError == "finally"

\* Lines 738-763 and 809-814: analysis and the choice of the path.
Analyze(j) ==
    LET l == w[j]
        ns == needs_splitting(l.audio)
    IN  /\ l.pc = "analyze"
        /\ IF ns.error # "none"
           THEN /\ Step(j, [l EXCEPT !.pc = AfterAnalysisError, !.analysis = ns.error,
                                     !.needs_split = ns.needs_split,
                                     !.status = "Analysis failed"],
                        <<Frac(5, 100)>>)
                /\ UNCHANGED temp_files
           ELSE IF ns.needs_split
           THEN /\ Step(j, [l EXCEPT !.pc = "compress", !.needs_split = TRUE,
                                     !.status = "File exceeds limits, processing..."],
                        <<Frac(5, 100), Frac(10, 100)>>)
                /\ temp_files' = Append(temp_files, CompressedPath(j))
           ELSE /\ Step(j, [l EXCEPT !.pc = "transcribe", !.needs_split = FALSE,
                                     !.files_to_transcribe = <<OriginalPath>>,
                                     !.status = "File within limits, uploading to OpenAI..."],
                        <<Frac(5, 100), Frac(30, 100)>>)
                /\ UNCHANGED temp_files
        /\ UNCHANGED <<is_transcribing, transcribed_text, disk>>

\* Lines 770-799 and 814: compress_audio and the branch on its result.
Compress(j) ==
    LET l == w[j] IN
    /\ l.pc = "compress"
    /\ \E o \in CompressOutcomes :
        LET r == compress_audio(o)
            l1 == [l EXCEPT !.n_compress = @ + 1,
                            !.compress_why = r.why,
                            !.ffmpeg = o,
                            !.created = IF o.wrote THEN @ \cup {CompressedPath(j)} ELSE @]
        IN  /\ disk' = IF o.wrote THEN disk \cup {CompressedPath(j)} ELSE disk
            /\ IF r.success
               THEN IF ~ExceedsLimits(r.size, r.ms)
                    THEN Step(j, [l1 EXCEPT !.pc = "transcribe", !.compressed_ms = r.ms,
                                            !.files_to_transcribe = <<CompressedPath(j)>>,
                                            !.status = "Compressed - uploading to OpenAI..."],
                              <<Frac(30, 100)>>)
                    ELSE Step(j, [l1 EXCEPT !.pc = "split", !.compressed_ms = r.ms,
                                            !.split_input = CompressedPath(j),
                                            !.status = "Still exceeds limits, splitting into chunks..."],
                              <<Frac(15, 100)>>)
               ELSE Step(j, [l1 EXCEPT !.pc = "split", !.split_input = OriginalPath,
                                       !.status = "Compression failed, splitting original file..."],
                         <<Frac(15, 100)>>)
    /\ UNCHANGED <<is_transcribing, transcribed_text, temp_files>>

\* Mutant: the splitter's error is not looked at and the job goes on with the
\* chunks made so far.
SplitErrorIgnored(l) == [l EXCEPT !.pc = "split_return"]

\* split_audio_file returned (None, error): lines 788-791 and 802-805.
SplitFailed(l) ==
    [l EXCEPT !.pc = "finally",
              !.status = IF l.split_input = OriginalPath THEN "Processing failed"
                         ELSE "Splitting failed"]

\* Lines 284-300: decode the input and size the loop.
SplitBegin(j) ==
    LET l == w[j]
        l1 == [l EXCEPT !.n_split = @ + 1]
        total == IF l.split_input = OriginalPath THEN l.audio.dur ELSE l.compressed_ms
        ceiling == max_chunk_duration_ms(split_max_size_mb, split_max_duration_seconds)
        n == num_chunks(total, ceiling)
    IN  /\ l.pc = "split"
        /\ \E decodeErr \in BOOLEAN :
            IF decodeErr
            THEN Step(j, [SplitFailed(l1) EXCEPT !.split_error = <<"exception", 0>>], <<>>)
            ELSE Step(j, [l1 EXCEPT !.pc = IF n > 0 THEN "split_export" ELSE "split_return",
                                    !.total_duration_ms = total, !.ceiling_ms = ceiling,
                                    !.n_chunks = n, !.split_i = 0, !.chunks = <<>>],
                      <<>>)
        /\ UNCHANGED <<is_transcribing, transcribed_text, temp_files, disk>>

\* Lines 303-320: slice chunk i and export it at 64 kbps.
SplitExport(j) ==
    LET l == w[j]
        path == ChunkPath(j, l.split_i)
    IN  /\ l.pc = "split_export"
        /\ \E e \in ExportOutcomes :
            LET l1 == [l EXCEPT !.created = IF e.wrote THEN @ \cup {path} ELSE @,
                                !.exports = Append(@, [chunk |-> l.split_i + 1, bitrate |-> 64,
                                                       raised |-> e.raised, size |-> e.size])]
            IN
            /\ disk' = IF e.wrote THEN disk \cup {path} ELSE disk
            /\ IF e.raised
               THEN Step(j, [SplitFailed(l1) EXCEPT !.split_error = <<"exception", 0>>], <<>>)
               ELSE Step(j, [l1 EXCEPT !.pc = "split_check", !.chunk_size = e.size], <<>>)
        /\ UNCHANGED <<is_transcribing, transcribed_text, temp_files>>

\* Lines 340-341 and the loop's advance: the chunk is accepted.
ChunkAccepted(l, path, size, bitrate) ==
    [l EXCEPT !.chunks = Append(@, [path |-> path,
                                    start_ms |-> start_ms(l.split_i, l.ceiling_ms),
                                    end_ms |-> end_ms(l.split_i, l.ceiling_ms, l.total_duration_ms),
                                    size |-> size, bitrate |-> bitrate]),
              !.split_i = @ + 1,
              !.pc = IF l.split_i + 1 < l.n_chunks THEN "split_export" ELSE "split_return"]

\* Lines 323-343: validate chunk i, retry once at 32 kbps, register it.
SplitCheck(j) ==
    LET l == w[j]
        path == ChunkPath(j, l.split_i)
        chunk_ms == end_ms(l.split_i, l.ceiling_ms, l.total_duration_ms)
                    - start_ms(l.split_i, l.ceiling_ms)
    IN  /\ l.pc = "split_check"
        /\ IF ExceedsLimits(l.chunk_size, chunk_ms)
           THEN \E e \in ExportOutcomes :
                   LET l1 == [l EXCEPT !.created = IF e.wrote THEN @ \cup {path} ELSE @,
                                       !.exports = Append(@, [chunk |-> l.split_i + 1, bitrate |-> 32,
                                                              raised |-> e.raised, size |-> e.size])]
                   IN
                   /\ disk' = IF e.wrote THEN disk \cup {path} ELSE disk \ {path}
                   /\ IF e.raised \/ ExceedsLimits(e.size, chunk_ms)
                      THEN /\ Step(j, [SplitFailed(l1) EXCEPT !.split_error =
                                          IF e.raised THEN <<"exception", 0>>
                                          ELSE <<"chunk", l.split_i + 1>>], <<>>)
                           /\ UNCHANGED temp_files
                      ELSE /\ Step(j, ChunkAccepted(l1, path, e.size, 32), <<>>)
                           /\ temp_files' = Append(temp_files, path)
           ELSE /\ Step(j, ChunkAccepted(l, path, l.chunk_size, 64), <<>>)
                /\ temp_files' = Append(temp_files, path)
                /\ UNCHANGED disk
        /\ UNCHANGED <<is_transcribing, transcribed_text>>

\* Lines 345, 793-795 / 807-808 and 814: the chunk list becomes the work list.
SplitReturn(j) ==
    LET l == w[j] IN
    /\ l.pc = "split_return"
    /\ Step(j, [l EXCEPT !.pc = "transcribe",
                         !.files_to_transcribe = [k \in 1..Len(l.chunks) |-> l.chunks[k].path],
                         !.status = "Split into chunks, transcribing..."],
            <<Frac(30, 100)>>)
    /\ UNCHANGED <<is_transcribing, transcribed_text, temp_files, disk>>

\* Mutant: the fragment is put in front of the list.
PrependTranscript(ts, t) == <<t>> \o ts

\* all_transcripts.append(t), lines 830 and 840.
AppendTranscript(ts, t) == Append(ts, t)

\* Mutant: the loop skips a file.
NextIndexSkip(i) == i + 2

\* The for loop of line 820 moves to the next file whatever happened.
NextIndex(i) == i + 1

\* Mutant: a failed request ends the job.
AbortOnChunkError == "finally"

\* Where the worker goes after the except clause of lines 838-840: back to
\* the loop.
AfterChunkError == "transcribe"

\* Lines 820-825: the next file is opened and sent to the service.
TranscribeSubmit(j) ==
    LET l == w[j] IN
    /\ l.pc = "transcribe"
    /\ l.i < Len(l.files_to_transcribe)
    /\ Step(j, [l EXCEPT !.pc = "awaiting",
                         !.in_flight = Append(@, l.files_to_transcribe[l.i + 1]),
                         !.submitted = Append(@, l.files_to_transcribe[l.i + 1]),
                         !.status = "Transcribing chunk..."],
            <<>>)
    /\ UNCHANGED <<is_transcribing, transcribed_text, temp_files, disk>>

\* Lines 825-840: the request returns text or raises.
TranscribeReturn(j) ==
    LET l == w[j]
        f == l.files_to_transcribe[l.i + 1]
        total_files == Len(l.files_to_transcribe)
    IN  /\ l.pc = "awaiting"
        /\ \E res \in ServiceOutcomes(f) :
            Step(j, [l EXCEPT !.pc = IF res.ok THEN "transcribe" ELSE AfterChunkError,
                              !.in_flight = Tail(@),
                              !.calls = Append(@, [file |-> f, res |-> res]),
                              !.all_transcripts = AppendTranscript(@, Fragment(l.i, res)),
                              !.i = NextIndex(@)],
                 IF res.ok THEN <<Frac(3 * total_files + 5 * (l.i + 1), 10 * total_files)>>
                 ELSE <<>>)
        /\ UNCHANGED <<is_transcribing, transcribed_text, temp_files, disk>>

\* Mutant: the loop can be left before its last file.
LoopLeftEarly(i, total_files) == TRUE

\* The for loop of line 820 is over: every file has had its turn.
LoopDone(i, total_files) == i >= total_files

\* Mutant: the exposed text is cleared instead of set.
ExposedTextCleared(combined) == <<>>

\* Line 856: the text exposed to the UI thread.
ExposedText(combined) == combined

\* Lines 842-856: combine the fragments and expose the text.
Combine(j) ==
    LET l == w[j]
        combined == CombineTranscripts(l.all_transcripts)
    IN  /\ l.pc = "transcribe"
        /\ LoopDone(l.i, Len(l.files_to_transcribe))
        /\ Step(j, [l EXCEPT !.pc = "write", !.combined_transcript = combined,
                             !.status = "Combining transcripts and saving..."],
                <<Frac(80, 100)>>)
        /\ transcribed_text' = ExposedText(combined)
        /\ UNCHANGED <<is_transcribing, temp_files, disk>>

\* Lines 887-892: the handler of the outer try.
ExceptHandler(l) == [l EXCEPT !.pc = "finally", !.status = "Transcription failed"]

\* Lines 859-870: write the output file, report completion.
WriteOutput(j) ==
    LET l == w[j] IN
    /\ l.pc = "write"
    /\ \E writeErr \in BOOLEAN :
        IF writeErr
        THEN Step(j, [ExceptHandler(l) EXCEPT !.write_error = TRUE], <<Frac(0, 100)>>)
        ELSE Step(j, [l EXCEPT !.pc = "completed",
                               !.written = Append(@, l.combined_transcript),
                               !.status = "Transcription completed successfully!",
                               !.copy_button_posted = TRUE],
                  <<Frac(100, 100)>>)
    /\ UNCHANGED <<is_transcribing, transcribed_text, temp_files, disk>>

\* Lines 872-885: the success dialog; opening the folder may raise.
AskOpenFolder(j) ==
    LET l == w[j] IN
    /\ l.pc = "completed"
    /\ \E openErr \in BOOLEAN :
        IF openErr
        THEN Step(j, ExceptHandler(l), <<Frac(0, 100)>>)
        ELSE Step(j, [l EXCEPT !.pc = "finally"], <<>>)
    /\ UNCHANGED <<is_transcribing, transcribed_text, temp_files, disk>>

\* Mutant: the files that could not be deleted stay registered.
RegistryKeepsUndeleted(files, failing) == SelectSeq(files, LAMBDA f : f \in failing)

\* Mutant: cleanup leaves the registry as it is.
RegistryUntouched(files, failing) == files

\* Line 681: the registry after cleanup.
RegistryAfterCleanup(files, failing) == <<>>

\* Mutant: the loop stops at the first file that cannot be deleted.
RemovedUntilFailure(files, failing) ==
    {files[n] : n \in {k \in 1..Len(files) : \A m \in 1..k : files[m] \notin failing}}

\* Lines 674-680: the files the loop removes, each os.remove in a try of its
\* own.
RemovedByCleanup(files, failing) == SeqToSet(files) \ failing

\* cleanup_temp_files (lines 672-681), called at line 911: os.remove fails
\* for the files of `failing`.
cleanup_temp_files(j, failing) ==
    LET l == w[j] IN
    /\ disk' = disk \ RemovedByCleanup(temp_files, failing)
    /\ temp_files' = RegistryAfterCleanup(temp_files, failing)
    /\ Step(j, [l EXCEPT !.pc = "release",
                         !.delete_failed = (failing # {}),
                         !.undeleted = failing],
            <<>>)

Cleanup(j) ==
    /\ w[j].pc = "finally"
    /\ \E failing \in SUBSET (SeqToSet(temp_files) \cap disk) : cleanup_temp_files(j, failing)
    /\ UNCHANGED <<is_transcribing, transcribed_text>>

\* Mutant: the finally clause leaves the guard set.
GuardKept == TRUE

\* Line 912: the value the finally clause gives is_transcribing.
GuardReleased == FALSE

\* Lines 912-913 and the return: the guard is released, reset_ui is posted
\* (it redraws the button only) and the thread ends; its locals are gone.
Release(j) ==
    /\ w[j].pc = "release"
    /\ is_transcribing' = GuardReleased
    /\ w' = [w EXCEPT ![j] = InitLocals]
    /\ UNCHANGED <<transcribed_text, temp_files, disk>>

\* The steps of transcribe_audio; none of them calls validate_inputs.
Worker(j) ==
    /\ \/ Analyze(j)
       \/ Compress(j)
       \/ SplitBegin(j)
       \/ SplitExport(j)
       \/ SplitCheck(j)
       \/ SplitReturn(j)
       \/ TranscribeSubmit(j)
       \/ TranscribeReturn(j)
       \/ Combine(j)
       \/ WriteOutput(j)
       \/ AskOpenFolder(j)
       \/ Cleanup(j)
       \/ Release(j)
    /\ UNCHANGED validation

Next ==
    \/ StartRequest
    \/ \E j \in Jobs : Worker(j)

Spec == Init /\ [][Next]_vars

\* The worker is a thread of its own (line 733): whenever it can take its
\* next step it eventually does.  The calls it waits for (ffmpeg, the service,
\* the dialogs) return.
FairSpec == Spec /\ \A j \in Jobs : WF_vars(Worker(j))

\* ----------------------------------------------------------------- claims

\* The job of thread j has run its finally clause's cleanup (line 911) and
\* has only the release of the guard left: the job has ended.
JobEnded(j) == w[j].pc = "release"

\* The job of thread j is past the transcription loop.
ReachedCombining(j) == w[j].pc \in {"write", "completed"} \/ (w[j].pc \in {"finally", "release"} /\ (w[j].write_error \/ w[j].written # <<>>))

\* The fragment the claims expect for the outcome of the request for the
\* k-th file (k = 1..N).
ExpectedFragment(k, res) ==
    IF res.ok THEN res.text
    ELSE <<"[Error transcribing chunk ", Str(k), ": ", res.reason, "]">>

\* The fragments from the k-th on, each but the first behind its separator.
RECURSIVE ExpectedFrom(_, _)
ExpectedFrom(ts, k) ==
    IF k > Len(ts) THEN <<>>
    ELSE (IF k > 1 THEN <<"\n\n--- Part ", Str(k), " ---\n\n">> ELSE <<>>)
         \o ts[k] \o ExpectedFrom(ts, k + 1)

RECURSIVE SumDurations(_, _)
SumDurations(cs, n) == IF n = 0 THEN 0 ELSE SumDurations(cs, n - 1) + (cs[n].end_ms - cs[n].start_ms)

\* C1: once a job has ended, and no deletion failed, none of the temporary
\* files the job created (the compressed file, every chunk file the splitter
\* wrote, a chunk that failed validation included) exists on disk.
C1_NoCreatedFileSurvives ==
    \A j \in Jobs :
        (JobEnded(j) /\ ~w[j].delete_failed) => (w[j].created \cap disk = {})

\* C2: when a job ends, on every exit path of transcribe_audio, temp_files is
\* empty; it stays empty while no job runs.
C2_RegistryEmptyAtJobEnd ==
    /\ \A j \in Jobs : JobEnded(j) => temp_files = <<>>
    /\ ~is_transcribing => temp_files = <<>>

\* C2 witness: a job that registered the compressed file and two chunks, one
\* of which could not be deleted, has ended.
C2_Witness ==
    \E j \in Jobs :
        /\ JobEnded(j)
        /\ w[j].n_compress = 1
        /\ Len(w[j].chunks) = 2
        /\ w[j].delete_failed

\* C3: in a job that reaches combining with N files, there are N fragments,
\* the k-th is the result (text or placeholder) of the request for the k-th
\* file, and the combined transcript holds them in that order: none is
\* reordered, duplicated or dropped.
C3_FragmentsInChunkOrder ==
    \A j \in Jobs :
        ReachedCombining(j) =>
            LET l == w[j]
                N == Len(l.files_to_transcribe)
            IN  /\ Len(l.all_transcripts) = N
                /\ Len(l.calls) = N
                /\ \A k \in 1..N :
                    /\ l.calls[k].file = l.files_to_transcribe[k]
                    /\ l.all_transcripts[k] = ExpectedFragment(k, l.calls[k].res)
                /\ l.combined_transcript =
                      ExpectedFrom([k \in 1..N |-> ExpectedFragment(k, l.calls[k].res)], 1)

\* C3 witness: a job with two chunks, the first failed and the second
\* transcribed, has combined its fragments.
C3_Witness ==
    \E j \in Jobs :
        /\ w[j].pc = "write"
        /\ Len(w[j].calls) = 2
        /\ ~w[j].calls[1].res.ok
        /\ w[j].calls[2].res.ok

\* C4: a failed request for chunk k does not abort the job.  While the loop
\* runs every request made so far has its fragment, the text verbatim or the
\* placeholder "[Error transcribing chunk k: <reason>]"; and a job that made a
\* request ends only after all N files were submitted and the fragments were
\* combined, with the output written unless the write itself failed.
C4_ChunkFailureAbsorbed ==
    \A j \in Jobs :
        LET l == w[j]
            N == Len(l.files_to_transcribe)
        IN  /\ l.pc \in {"transcribe", "awaiting"} =>
                /\ Len(l.all_transcripts) = Len(l.calls)
                /\ \A k \in 1..Len(l.calls) :
                      l.all_transcripts[k] =
                          IF l.calls[k].res.ok THEN l.calls[k].res.text
                          ELSE <<"[Error transcribing chunk ", Str(k), ": ",
                                 l.calls[k].res.reason, "]">>
            /\ (l.pc \in {"finally", "release"} /\ l.calls # <<>>) =>
                /\ Len(l.submitted) = N
                /\ Len(l.all_transcripts) = N
                /\ l.write_error \/ l.written = <<l.combined_transcript>>

\* C4 witness: a single-file job whose only request failed has written the
\* placeholder as its output and ended.
C4_Witness ==
    \E j \in Jobs :
        /\ JobEnded(j)
        /\ Len(w[j].files_to_transcribe) = 1
        /\ Len(w[j].calls) = 1
        /\ ~w[j].calls[1].res.ok
        /\ w[j].written = <<<<"[Error transcribing chunk ", "1", ": ", "rate limit", "]">>>>

\* C5: the files are submitted in ordinal order, each once, and a file is
\* submitted only after the request for the one before it has returned or
\* failed: at most one request is in flight, over all threads.
C5_SequentialSubmission ==
    /\ \A j \in Jobs :
        LET l == w[j]
            N == Len(l.files_to_transcribe)
        IN  /\ Len(l.submitted) <= N
            /\ \A k \in 1..Len(l.submitted) : l.submitted[k] = l.files_to_transcribe[k]
            /\ \A k1, k2 \in 1..N :
                  l.files_to_transcribe[k1] = l.files_to_transcribe[k2] => k1 = k2
            /\ IF l.pc = "awaiting"
               THEN /\ Len(l.submitted) = Len(l.calls) + 1
                    /\ l.in_flight = <<l.files_to_transcribe[Len(l.submitted)]>>
               ELSE /\ Len(l.submitted) = Len(l.calls)
                    /\ l.in_flight = <<>>
            /\ ReachedCombining(j) => Len(l.submitted) = N
    /\ Cardinality({j \in Jobs : w[j].in_flight # <<>>}) <= 1

\* C5 witness: the request for the second of two chunks is in flight after
\* the first one's failed.
C5_Witness ==
    \E j \in Jobs :
        /\ w[j].pc = "awaiting"
        /\ Len(w[j].files_to_transcribe) = 2
        /\ Len(w[j].calls) = 1
        /\ ~w[j].calls[1].res.ok
        /\ w[j].in_flight = <<w[j].files_to_transcribe[2]>>

\* The threads that are inside transcribe_audio before its release of the
\* guard (line 912).
Running == {j \in Jobs : w[j].pc # "idle"}

\* C6: at most one job is active at any time.  A call of start_transcription
\* made while is_transcribing is true creates no thread and changes nothing
\* (a step that is no worker's leaves every variable alone), and no two
\* threads are ever inside transcribe_audio together.
C6_SingleActiveJob ==
    /\ [](Cardinality(Running) <= 1)
    /\ [](is_transcribing <=> Running # {})
    /\ [][is_transcribing =>
            /\ \A j \in Jobs : w[j].pc = "idle" => w'[j].pc = "idle"
            /\ (w' = w => UNCHANGED vars)]_vars

\* C6 witness: a job is in the middle of its work, with a request in flight,
\* while a thread could still be created.
C6_Witness ==
    /\ is_transcribing
    /\ \E j \in Jobs : w[j].pc = "awaiting" /\ Len(w[j].calls) = 1
    /\ FreeThreads # {}

\* C7: needs_splitting returns true exactly when the size is above 25 MB or
\* the duration is known and above 1400 s; with the duration unknown the
\* decision is made on size alone.
C7_LimitDecision ==
    \A j \in Jobs :
        (w[j].pc \notin {"idle", "analyze"} /\ ~w[j].audio.sizeErr) =>
            (w[j].needs_split <=>
                (\/ w[j].audio.size > 25 * 1024 * 1024
                 \/ (~w[j].audio.probeErr /\ w[j].audio.dur > 1400 * 1000)))

\* C8: a failure of the duration probe does not abort the job: it does not
\* end in the analysis-failed state, it goes on to transcription.
C8_ProbeFailureNotFatal ==
    \A j \in Jobs :
        (w[j].pc \notin {"idle", "analyze"} /\ w[j].audio.probeErr /\ ~w[j].audio.sizeErr) =>
            /\ w[j].status # "Analysis failed"
            /\ JobEnded(j) => w[j].submitted # <<>>

\* C9: a job whose input has size <= 25 MB and duration <= 1400 s, or unknown
\* duration and size <= 25 MB, compresses nothing, splits nothing, makes
\* exactly one transcription request, for the original file, and what it
\* writes is that request's result with no separator.
C9_PassThrough ==
    \A j \in Jobs :
        (/\ JobEnded(j)
         /\ ~w[j].audio.sizeErr
         /\ w[j].audio.size <= 25 * 1024 * 1024
         /\ (w[j].audio.probeErr \/ w[j].audio.dur <= 1400 * 1000)) =>
            /\ w[j].n_compress = 0
            /\ w[j].n_split = 0
            /\ Len(w[j].calls) = 1
            /\ w[j].calls[1].file = OriginalPath
            /\ w[j].written # <<>> => w[j].written = <<ExpectedFragment(1, w[j].calls[1].res)>>

\* C10: a successful split of T ms with ceiling c returns N = ceil(T / c)
\* chunks; chunk i (0-based) covers [i*c, min((i+1)*c, T)); the chunks are
\* contiguous from 0 to T, only the last may be shorter than c, and their
\* durations add up to T.
C10_ChunkPartition ==
    \A j \in Jobs :
        w[j].pc = "split_return" =>
            LET l == w[j]
                T == l.total_duration_ms
                c == l.ceiling_ms
                N == Len(l.chunks)
            IN  /\ c > 0
                /\ N * c >= T
                /\ N > 0 => (N - 1) * c < T
                /\ \A k \in 1..N :
                    /\ l.chunks[k].start_ms = (k - 1) * c
                    /\ l.chunks[k].end_ms = (IF k * c <= T THEN k * c ELSE T)
                    /\ k < N => l.chunks[k].end_ms - l.chunks[k].start_ms = c
                    /\ k < N => l.chunks[k + 1].start_ms = l.chunks[k].end_ms
                    /\ l.chunks[k].end_ms - l.chunks[k].start_ms <= c
                    /\ l.chunks[k].end_ms > l.chunks[k].start_ms
                /\ N > 0 => (l.chunks[1].start_ms = 0 /\ l.chunks[N].end_ms = T)
                /\ SumDurations(l.chunks, N) = T

\* C10 witness: a split returned two chunks, the second shorter than the
\* ceiling.
C10_Witness ==
    \E j \in Jobs :
        /\ w[j].pc = "split_return"
        /\ Len(w[j].chunks) = 2
        /\ w[j].chunks[2].end_ms - w[j].chunks[2].start_ms < w[j].ceiling_ms

\* The job of thread j called split_audio_file and it returned a chunk list.
SplitSucceeded(j) ==
    /\ w[j].n_split > 0
    /\ w[j].split_error = <<"none", 0>>
    /\ w[j].pc \notin {"split", "split_export", "split_check"}

\* The exports of the job of thread j for chunk k at bitrate b.
ExportsOf(j, k, b) ==
    {n \in 1..Len(w[j].exports) : w[j].exports[n].chunk = k /\ w[j].exports[n].bitrate = b}

\* C11: every chunk of a list returned by split_audio_file is within the
\* limits, size <= 25 MB and duration <= 1400 s, at the 64 kbps encoding or,
\* when that one was too big, at the 32 kbps encoding; and every chunk file
\* submitted for transcription is such a chunk.
C11_ChunksWithinLimits ==
    \A j \in Jobs :
        LET l == w[j] IN
        /\ \A k \in 1..Len(l.chunks) :
            /\ l.chunks[k].size <= 25 * 1024 * 1024
            /\ l.chunks[k].end_ms - l.chunks[k].start_ms <= 1400 * 1000
            /\ l.chunks[k].bitrate \in {64, 32}
            /\ \E n \in ExportsOf(j, k, l.chunks[k].bitrate) :
                  ~l.exports[n].raised /\ l.exports[n].size = l.chunks[k].size
            /\ l.chunks[k].bitrate = 32 =>
                  \E n \in ExportsOf(j, k, 64) : l.exports[n].size > 25 * 1024 * 1024
        /\ \A n \in 1..Len(l.submitted) :
              l.submitted[n][1] = "audio_chunk" =>
                  /\ SplitSucceeded(j)
                  /\ \E k \in 1..Len(l.chunks) : l.chunks[k].path = l.submitted[n]

\* C11 witness: a split returned two chunks, the first kept at 64 kbps and
\* the second re-encoded at 32 kbps, and the second has been submitted.
C11_Witness ==
    \E j \in Jobs :
        /\ SplitSucceeded(j)
        /\ Len(w[j].chunks) = 2
        /\ w[j].chunks[1].bitrate = 64
        /\ w[j].chunks[2].bitrate = 32
        /\ Len(w[j].submitted) = 2

\* C12: a successful split never returns an empty chunk list, so a job that
\* went through the splitter makes at least one transcription request before
\* it combines.
C12_SplitNeverEmpty ==
    \A j \in Jobs :
        /\ SplitSucceeded(j) => Len(w[j].chunks) >= 1
        /\ (w[j].n_split > 0 /\ ReachedCombining(j)) => Len(w[j].calls) >= 1

\* The duration in ms of chunk k (1-based) of the split the job of thread j runs.
ChunkMs(j, k) ==
    (IF k * w[j].ceiling_ms <= w[j].total_duration_ms
     THEN k * w[j].ceiling_ms ELSE w[j].total_duration_ms) - (k - 1) * w[j].ceiling_ms

\* An encoding of chunk k of `size` bytes violates a limit.
Violates(j, k, size) == size > 25 * 1024 * 1024 \/ ChunkMs(j, k) > 1400 * 1000

\* C13: a chunk is encoded once at 64 kbps; it is encoded again, once, at
\* 32 kbps exactly when the 64 kbps file violates a limit, and the new file is
\* validated again.  If that one violates a limit too, the split fails with
\* the error naming the chunk, the job gets no chunk list, makes no
\* transcription request, writes no output and ends in a failed state.
C13_RetryOnceThenFail ==
    \A j \in Jobs :
        LET l == w[j] IN
        /\ \A k \in 1..(MaxChunks + 1) :
            /\ Cardinality(ExportsOf(j, k, 64)) <= 1
            /\ Cardinality(ExportsOf(j, k, 32)) <= 1
        /\ \A n \in 1..Len(l.exports) :
            LET e == l.exports[n]
                checking == l.pc = "split_check" /\ l.split_i + 1 = e.chunk
            IN  /\ (e.bitrate = 64 /\ ~e.raised /\ ~checking) =>
                      (Violates(j, e.chunk, e.size) <=> ExportsOf(j, e.chunk, 32) = {n + 1})
                /\ e.bitrate = 32 =>
                      /\ n > 1
                      /\ l.exports[n - 1] \in
                            {[chunk |-> e.chunk, bitrate |-> 64, raised |-> FALSE, size |-> sz] :
                                sz \in Sizes}
                /\ (e.bitrate = 32 /\ ~e.raised) =>
                      IF Violates(j, e.chunk, e.size)
                      THEN l.split_error = <<"chunk", e.chunk>> /\ n = Len(l.exports)
                      ELSE /\ Len(l.chunks) >= e.chunk
                           /\ l.chunks[e.chunk].bitrate = 32
                           /\ l.chunks[e.chunk].size = e.size
        /\ l.split_error[1] = "chunk" =>
            /\ l.exports # <<>>
            /\ LET e == l.exports[Len(l.exports)] IN
                  /\ e.chunk = l.split_error[2]
                  /\ e.bitrate = 32
                  /\ Violates(j, e.chunk, e.size)
            /\ l.pc \in {"finally", "release"}
            /\ l.status \in {"Processing failed", "Splitting failed"}
            /\ l.files_to_transcribe = <<>>
            /\ l.submitted = <<>>
            /\ l.calls = <<>>
            /\ l.written = <<>>
            /\ ~l.copy_button_posted

\* C13 witness: the second chunk of a split was still too big at 32 kbps, after
\* the first had been accepted, and the job has ended.
C13_Witness ==
    \E j \in Jobs :
        /\ JobEnded(j)
        /\ w[j].split_error = <<"chunk", 2>>
        /\ Len(w[j].chunks) = 1
        /\ Len(w[j].exports) = 3

\* text.split at the lines "\n\n--- Part <label> ---\n\n": the segments
\* between the separators, from position n on, cur being the segment so far.
RECURSIVE SplitAtSeparators(_, _, _)
SplitAtSeparators(text, n, cur) ==
    IF n > Len(text) THEN <<cur>>
    ELSE IF text[n] = "\n\n--- Part " /\ n + 2 <= Len(text) /\ text[n + 2] = " ---\n\n"
         THEN <<cur>> \o SplitAtSeparators(text, n + 3, <<>>)
         ELSE SplitAtSeparators(text, n + 1, Append(cur, text[n]))

\* The labels of the separators of text, in order.
RECURSIVE SeparatorLabels(_, _)
SeparatorLabels(text, n) ==
    IF n > Len(text) THEN <<>>
    ELSE IF text[n] = "\n\n--- Part " /\ n + 2 <= Len(text) /\ text[n + 2] = " ---\n\n"
         THEN <<text[n + 1]>> \o SeparatorLabels(text, n + 3)
         ELSE SeparatorLabels(text, n + 1)

\* C14: the combined transcript of N fragments is, for N = 1, the fragment
\* itself; for N > 1 it has the separators "--- Part 2 ---" to
\* "--- Part N ---" in this order, each between blank lines, and cutting it at
\* them gives back the N fragments in order.
C14_CombinedTranscriptShape ==
    \A j \in Jobs :
        (ReachedCombining(j) /\ Len(w[j].all_transcripts) >= 1) =>
            LET l == w[j]
                N == Len(l.all_transcripts)
            IN  /\ N = 1 => l.combined_transcript = l.all_transcripts[1]
                /\ N > 1 =>
                    /\ SeparatorLabels(l.combined_transcript, 1) = [k \in 1..(N - 1) |-> Str(k + 1)]
                    /\ SplitAtSeparators(l.combined_transcript, 1, <<>>) = l.all_transcripts
                /\ Len(SplitAtSeparators(l.combined_transcript, 1, <<>>)) = N

\* C14 witness: two fragments, a text and a placeholder, have been combined
\* and written.
C14_Witness ==
    \E j \in Jobs :
        /\ w[j].pc = "completed"
        /\ Len(w[j].all_transcripts) = 2
        /\ w[j].calls[1].res.ok
        /\ ~w[j].calls[2].res.ok
        /\ Len(SeparatorLabels(w[j].written[1], 1)) = 1

\* The job of thread j met a fatal analysis error (the size of the file cannot
\* be read) or a failure of the splitter.
FatalFailure(j) == w[j].analysis = "check" \/ w[j].split_error # <<"none", 0>>

\* C15: after a fatal analysis error or a splitter failure the job is in a
\* failed state: no transcription request, no output file, no 100% progress,
\* no copy button.  The only steps left to it are the cleanup, which empties
\* the registry, and then the release of the guard, and it takes them.
C15_FatalErrorEndsJob ==
    /\ [](\A j \in Jobs :
            FatalFailure(j) =>
                /\ w[j].pc \in {"finally", "release"}
                /\ w[j].status \in {"Analysis failed", "Processing failed", "Splitting failed"}
                /\ w[j].submitted = <<>>
                /\ w[j].calls = <<>>
                /\ w[j].written = <<>>
                /\ ~w[j].copy_button_posted
                /\ \A n \in 1..Len(w[j].posts) : w[j].posts[n] # Frac(100, 100)
                /\ is_transcribing)
    /\ [][\A j \in Jobs :
            (FatalFailure(j) /\ w'[j] # w[j]) =>
                IF w[j].pc = "finally"
                THEN w'[j].pc = "release" /\ temp_files' = <<>> /\ is_transcribing'
                ELSE w'[j].pc = "idle" /\ ~is_transcribing']_vars
    /\ \A j \in Jobs : FatalFailure(j) ~> (w[j].pc = "idle" /\ ~is_transcribing)

\* C15 witness: a job whose file size could not be read has run its cleanup
\* and is about to release the guard.
C15_Witness ==
    \E j \in Jobs :
        /\ JobEnded(j)
        /\ w[j].audio.sizeErr
        /\ w[j].status = "Analysis failed"
        /\ is_transcribing

\* The fraction p is at most the fraction q.
FracLeq(p, q) == p[1] * q[2] <= q[1] * p[2]

\* C16: the progress values a job posts never decrease, and each lies in
\* [0, 1], on every path through transcribe_audio.
C16_ProgressMonotone ==
    \A j \in Jobs :
        /\ \A n \in 1..Len(w[j].posts) :
              FracLeq(Frac(0, 1), w[j].posts[n]) /\ FracLeq(w[j].posts[n], Frac(1, 1))
        /\ \A n \in 1..(Len(w[j].posts) - 1) : FracLeq(w[j].posts[n], w[j].posts[n + 1])

\* The values lie in [0, 1] on every path.
ProgressInRange ==
    \A j \in Jobs : \A n \in 1..Len(w[j].posts) :
        FracLeq(Frac(0, 1), w[j].posts[n]) /\ FracLeq(w[j].posts[n], Frac(1, 1))

\* The values never decrease on the paths that do not enter the handler of
\* line 887.
ProgressMonotoneWithoutException ==
    \A j \in Jobs :
        w[j].status # "Transcription failed" =>
            \A n \in 1..(Len(w[j].posts) - 1) : FracLeq(w[j].posts[n], w[j].posts[n + 1])

\* The job of thread j is inside split_audio_file, or has just left it with
\* an error.
InsideSplit(j) ==
    \/ w[j].pc \in {"split_export", "split_check", "split_return"}
    \/ w[j].pc = "finally" /\ w[j].split_error # <<"none", 0>>

\* C17: while split_audio_file runs, and when it fails, every chunk file of
\* the job that exists on disk is in temp_files.
C17_ChunkRegisteredOnCreation ==
    \A j \in Jobs :
        InsideSplit(j) =>
            \A f \in w[j].created \cap disk :
                f[1] = "audio_chunk" => f \in SeqToSet(temp_files)

\* The chunks the splitter accepted are registered.
AcceptedChunksRegistered ==
    \A j \in Jobs :
        InsideSplit(j) =>
            \A k \in 1..Len(w[j].chunks) : w[j].chunks[k].path \in SeqToSet(temp_files)

\* C18: a job whose input exceeds a limit compresses first, once, before any
\* split.  If the compressed file fits both limits it is the only file
\* transcribed and nothing is split; if the transcoder failed outright the
\* splitter gets the original file; if the compressed file still exceeds a
\* limit the splitter gets the compressed file.
C18_CompressThenSplit ==
    \A j \in Jobs :
        LET l == w[j] IN
        /\ (l.needs_split /\ l.pc \notin {"idle", "analyze", "compress"}) => l.n_compress = 1
        /\ l.n_split > 0 => (l.n_compress = 1 /\ l.n_split = 1)
        /\ (l.compress_why = "none") =>
              /\ l.n_split = 0
              /\ l.files_to_transcribe = <<CompressedPath(j)>>
        /\ (l.compress_why \in {"notfound", "returncode"} /\ l.pc # "finally") =>
              /\ l.split_input = OriginalPath
              /\ l.pc # "split" => l.n_split = 1
        /\ (l.compress_why = "limits" /\ l.pc # "finally") =>
              /\ l.split_input = CompressedPath(j)
              /\ l.pc # "split" => l.n_split = 1

\* What holds of every job: compression first, its file alone when it fits,
\* and otherwise the split of the original file, whatever made compress_audio
\* return False.
SplitsOriginalAfterCompression ==
    \A j \in Jobs :
        LET l == w[j] IN
        /\ (l.needs_split /\ l.pc \notin {"idle", "analyze", "compress"}) => l.n_compress = 1
        /\ l.n_split > 0 => (l.n_compress = 1 /\ l.n_split = 1)
        /\ (l.compress_why = "none") =>
              /\ l.n_split = 0
              /\ l.files_to_transcribe = <<CompressedPath(j)>>
        /\ l.compress_why \in {"notfound", "returncode", "probe", "limits"} =>
              l.split_input = OriginalPath

\* The job of thread j reached the completed state: lines 862-870 ran.
ReachedCompleted(j) == w[j].copy_button_posted

\* C19: once a job has reached the completed state, it has posted progress
\* 1.0, it has written the output file once, and transcribed_text, which is
\* what copy_to_clipboard copies, is the text it wrote.
C19_CompletedState ==
    \A j \in Jobs :
        ReachedCompleted(j) =>
            /\ \E n \in 1..Len(w[j].posts) : w[j].posts[n] = Frac(100, 100)
            /\ Len(w[j].written) = 1
            /\ w[j].written[1] = w[j].combined_transcript
            /\ transcribed_text = w[j].written[1]
            /\ transcribed_text # <<>> =>
                  copy_to_clipboard(<<"earlier clipboard">>) = w[j].written[1]

\* C19 witness: a second job has completed with a two-part text that is not
\* the text the first job had left.
C19_Witness ==
    \E j \in Jobs :
        /\ w[j].pc = "completed"
        /\ ReachedCompleted(j)
        /\ Len(w[j].calls) = 2
        /\ w[j].text_at_start # <<>>
        /\ w[j].text_at_start # transcribed_text

\* C20: a deletion that fails in cleanup is not escalated.  The cleanup step
\* removes every registered file but the ones whose deletion failed, empties
\* the registry, and leaves the job's outcome (status, output, progress,
\* exposed text) as it was; the release of the guard that follows is the same
\* step whether a deletion failed or not.
C20_DeletionFailureNotEscalated ==
    /\ [][\A j \in Jobs :
            (w[j].pc = "finally" /\ w'[j] # w[j]) =>
                /\ w'[j].pc = "release"
                /\ w'[j].undeleted \subseteq SeqToSet(temp_files) \cap disk
                /\ w'[j].delete_failed <=> w'[j].undeleted # {}
                /\ disk' = disk \ (SeqToSet(temp_files) \ w'[j].undeleted)
                /\ temp_files' = <<>>
                /\ w[j] = [w'[j] EXCEPT !.pc = "finally", !.delete_failed = FALSE,
                                         !.undeleted = {}]
                /\ UNCHANGED <<is_transcribing, transcribed_text>>]_vars
    /\ [][\A j \in Jobs :
            (w[j].pc = "release" /\ w'[j] # w[j]) =>
                /\ ~is_transcribing'
                /\ w'[j].pc = "idle"
                /\ UNCHANGED <<transcribed_text, temp_files, disk>>]_vars
    /\ [](\A j \in Jobs : w[j].pc \notin {"release"} => w[j].undeleted = {})

\* C20 witness: a completed job registered two files, the deletion of one of
\* them failed, the other is gone, and the job is about to release the guard.
C20_Witness ==
    \E j \in Jobs :
        /\ JobEnded(j)
        /\ w[j].status = "Transcription completed successfully!"
        /\ Cardinality(w[j].undeleted) = 1
        /\ Cardinality(w[j].created) = 2
        /\ w[j].created \cap disk = w[j].undeleted
        /\ temp_files = <<>>

\* The job of thread j failed at the write of the output file, after the
\* loop had collected a fragment for every file.
FailedAfterFragments(j) ==
    /\ w[j].write_error
    /\ w[j].pc \in {"finally", "release"}
    /\ w[j].all_transcripts # <<>>

\* C21: when a job fails at the output write, after its fragments were
\* collected, nothing has been written and transcribed_text is what it was
\* before the job started.
C21_FailureDiscardsFragments ==
    \A j \in Jobs :
        FailedAfterFragments(j) =>
            /\ w[j].written = <<>>
            /\ transcribed_text = w[j].text_at_start

\* On that failure nothing has been written, and the exposed text is the
\* combined text of the failed job.
FailureKeepsCombinedText ==
    \A j \in Jobs :
        FailedAfterFragments(j) =>
            /\ w[j].written = <<>>
            /\ transcribed_text = w[j].combined_transcript

\* The fractions p and q have the same value.
FracEq(p, q) == p[1] * q[2] = q[1] * p[2]

\* C22: in the transcription loop over N files, once chunk i has been
\* processed, with text or with an error, the value 0.3 + 0.5 * i / N has
\* been posted.
C22_ProgressAfterEveryChunk ==
    \A j \in Jobs :
        w[j].pc \in {"transcribe", "awaiting"} =>
            LET N == Len(w[j].files_to_transcribe) IN
            \A i \in 1..Len(w[j].calls) :
                \E n \in 1..Len(w[j].posts) :
                    FracEq(w[j].posts[n], Frac(3 * N + 5 * i, 10 * N))

\* The value is posted after every chunk whose request returned text.
ProgressAfterEverySuccess ==
    \A j \in Jobs :
        w[j].pc \in {"transcribe", "awaiting"} =>
            LET N == Len(w[j].files_to_transcribe) IN
            \A i \in 1..Len(w[j].calls) :
                w[j].calls[i].res.ok <=>
                    \E n \in 1..Len(w[j].posts) :
                        FracEq(w[j].posts[n], Frac(3 * N + 5 * i, 10 * N))

\* C23: compress_audio reports success exactly when ffmpeg exited with code
\* 0, the duration of the compressed file could be probed, and the file is
\* within both limits; after a success the compressed file is the work list
\* and nothing is split; in every other case the job goes to the splitter.
C23_CompressionSuccess ==
    \A j \in Jobs :
        w[j].n_compress = 1 =>
            LET l == w[j]
                o == l.ffmpeg
                fits == /\ o.kind = "ok"
                        /\ ~o.probeErr
                        /\ o.size <= 25 * 1024 * 1024
                        /\ o.dur <= 1400 * 1000
            IN  /\ o.kind \in {"notfound", "nonzero", "ok"}
                /\ (l.compress_why = "none") <=> fits
                /\ fits => /\ l.n_split = 0
                            /\ l.pc \notin {"split", "split_export", "split_check", "split_return"}
                            /\ l.files_to_transcribe = <<CompressedPath(j)>>
                /\ ~fits => (l.pc = "split" \/ l.n_split = 1)
                /\ ~fits => \A n \in 1..Len(l.submitted) : l.submitted[n] # CompressedPath(j)

\* C23 witness: compression wrote a file that is within the size limit and
\* over the duration limit, and the job has gone on to split.
C23_Witness ==
    \E j \in Jobs :
        /\ w[j].pc = "split_export"
        /\ w[j].ffmpeg.kind = "ok"
        /\ ~w[j].ffmpeg.probeErr
        /\ w[j].ffmpeg.size <= 25 * 1024 * 1024
        /\ w[j].ffmpeg.dur > 1400 * 1000

\* The stage of a job by the worker's position: 1 analyzing, 2 compressing,
\* 3 splitting, 4 transcribing, 5 combined and writing, 6 completed, 7 ended.
StageOf(pc) ==
    CASE pc = "analyze" -> 1
      [] pc = "compress" -> 2
      [] pc \in {"split", "split_export", "split_check", "split_return"} -> 3
      [] pc \in {"transcribe", "awaiting"} -> 4
      [] pc = "write" -> 5
      [] pc = "completed" -> 6
      [] pc \in {"finally", "release"} -> 7
      [] OTHER -> 0

\* C24: a job starts in analyzing and its stages only advance: analyzing,
\* compressing, splitting, transcribing the files 1..N one after the other,
\* combining and writing, completed.  The output is written at most once, and
\* only when every one of the N files has been attempted.
C24_StageOrder ==
    /\ [][\A j \in Jobs :
            /\ (w[j].pc = "idle" /\ w'[j].pc # "idle") => w'[j].pc = "analyze"
            /\ (w[j].pc # "idle" /\ w'[j].pc # "idle") =>
                  /\ StageOf(w'[j].pc) >= StageOf(w[j].pc)
                  /\ w'[j].n_compress \in {w[j].n_compress, w[j].n_compress + 1}
                  /\ w'[j].n_compress > w[j].n_compress => StageOf(w[j].pc) = 2
                  /\ w'[j].n_split > w[j].n_split => (w[j].pc = "split" /\ w[j].n_split = 0)
                  /\ w'[j].i \in {w[j].i, w[j].i + 1}
                  /\ w'[j].i # w[j].i => StageOf(w[j].pc) = 4
                  /\ w'[j].submitted # w[j].submitted =>
                        /\ StageOf(w[j].pc) = 4
                        /\ w'[j].submitted =
                              Append(w[j].submitted, w[j].files_to_transcribe[w[j].i + 1])
                  /\ w'[j].written # w[j].written =>
                        (w[j].pc = "write" /\ w[j].written = <<>> /\ w'[j].pc = "completed")
                  /\ StageOf(w'[j].pc) = 6 => w'[j].written # <<>>]_vars
    /\ [](\A j \in Jobs :
            /\ Len(w[j].written) <= 1
            /\ StageOf(w[j].pc) \in {5, 6} =>
                  /\ Len(w[j].calls) = Len(w[j].files_to_transcribe)
                  /\ w[j].submitted = w[j].files_to_transcribe
            /\ w[j].written # <<>> =>
                  /\ Len(w[j].calls) = Len(w[j].files_to_transcribe)
                  /\ w[j].submitted = w[j].files_to_transcribe
            /\ StageOf(w[j].pc) < 4 => (w[j].submitted = <<>> /\ w[j].written = <<>>)
            /\ StageOf(w[j].pc) < 3 => w[j].n_split = 0
            /\ StageOf(w[j].pc) < 2 => w[j].n_compress = 0)

\* C24 witness: a job that compressed, split into two chunks and attempted
\* both has written its output and completed.
C24_Witness ==
    \E j \in Jobs :
        /\ w[j].pc = "completed"
        /\ w[j].n_compress = 1
        /\ w[j].n_split = 1
        /\ Len(w[j].calls) = 2
        /\ Len(w[j].written) = 1

\* The job of thread j has computed the chunk ceiling (line 291).
CeilingComputed(j) ==
    /\ w[j].n_split = 1
    /\ w[j].pc # "split"
    /\ w[j].split_error # <<"exception", 0>> \/ w[j].exports # <<>>

\* C25: the ceiling split_audio_file computes with its defaults (24 MB,
\* 1350 s) is the smaller of 1350 * 1000 ms and
\* (24 * 1024 * 1024 * 1000) // 8192 = 3072000 ms; it is positive and at most
\* 1400 s, and no chunk cut with it is longer than 1400 s.
C25_ChunkCeiling ==
    \A j \in Jobs :
        CeilingComputed(j) =>
            LET c == w[j].ceiling_ms
                by_duration == 1350 * 1000
                by_size == 3072000
            IN  /\ (24 * 1024 * 1024) % 8192 = 0
                /\ by_size = ((24 * 1024 * 1024) \div 8192) * 1000
                /\ c = (IF by_duration <= by_size THEN by_duration ELSE by_size)
                /\ c <= by_duration /\ c <= by_size
                /\ c > 0
                /\ c <= 1400 * 1000
                /\ \A k \in 1..w[j].n_chunks : ChunkMs(j, k) <= 1400 * 1000
                /\ \A k \in 1..Len(w[j].chunks) :
                      w[j].chunks[k].end_ms - w[j].chunks[k].start_ms <= 1400 * 1000

\* C25 witness: a split of an input of twice the ceiling has cut its second
\* chunk.
C25_Witness ==
    \E j \in Jobs :
        /\ CeilingComputed(j)
        /\ w[j].total_duration_ms = 2 * 1350 * 1000
        /\ Len(w[j].chunks) = 2

\* C26: the guard is released only after cleanup has emptied the registry,
\* a job that start_transcription accepts begins with an empty registry, and
\* while a job runs temp_files is changed by that job's thread alone, which
\* puts only its own files there.
C26_GuardReleasedAfterCleanup ==
    /\ [][(is_transcribing /\ ~is_transcribing') =>
            /\ temp_files = <<>>
            /\ temp_files' = <<>>
            /\ \E j \in Jobs : w[j].pc = "release" /\ w'[j].pc = "idle"]_vars
    /\ [][(~is_transcribing /\ is_transcribing') =>
            (temp_files = <<>> /\ temp_files' = <<>>)]_vars
    /\ [][temp_files' # temp_files =>
            \E j \in Jobs :
                /\ Running = {j}
                /\ w'[j] # w[j]
                /\ \A k \in Jobs \ {j} : w'[k] = w[k]]_vars
    /\ [](\A j \in Jobs :
            /\ w[j].pc \in {"analyze", "release"} => temp_files = <<>>
            /\ w[j].pc # "idle" =>
                  \A n \in 1..Len(temp_files) : temp_files[n][2] = j)
    /\ [](~is_transcribing => temp_files = <<>>)

\* C26 witness: a later job that registered the compressed file and two
\* chunks has run its cleanup and still holds the guard.
C26_Witness ==
    \E j \in Jobs :
        /\ JobEnded(j)
        /\ is_transcribing
        /\ temp_files = <<>>
        /\ Len(w[j].chunks) = 2
        /\ w[j].text_at_start # <<>>

\* C27: every job that was started ends and releases the guard, given that
\* the worker thread keeps running and each call it makes returns or raises:
\* whenever is_transcribing is true it eventually is false, every thread
\* eventually is gone, and with the guard released no thread is left, so the
\* next valid start_transcription request creates one.
C27_JobTerminates ==
    /\ is_transcribing ~> ~is_transcribing
    /\ \A j \in Jobs : (w[j].pc # "idle") ~> (w[j].pc = "idle")
    /\ [](~is_transcribing => FreeThreads = Jobs)

\* C27 witness: after an earlier job left its text, the guard is free again
\* and a new job has been accepted.
C27_Witness ==
    \E j \in Jobs :
        /\ w[j].pc = "analyze"
        /\ is_transcribing
        /\ w[j].text_at_start # <<>>
        /\ transcribed_text = w[j].text_at_start

\* C28: the selected file is never in temp_files, no job writes it, and it
\* stays on disk, whatever path the job takes; what is registered for
\* deletion is the compressed file and chunk files only.
C28_OriginalNeverRegistered ==
    /\ OriginalPath \notin SeqToSet(temp_files)
    /\ \A n \in 1..Len(temp_files) : temp_files[n][1] \in {"compressed_audio", "audio_chunk"}
    /\ OriginalPath \in disk
    /\ \A j \in Jobs :
        /\ OriginalPath \notin w[j].created
        /\ OriginalPath \notin w[j].undeleted
        /\ \A k \in 1..Len(w[j].chunks) : w[j].chunks[k].path # OriginalPath

\* C28 witness: a job that split the selected file itself into two chunks
\* and transcribed them has run its cleanup.
C28_Witness ==
    \E j \in Jobs :
        /\ JobEnded(j)
        /\ w[j].split_input = OriginalPath
        /\ Len(w[j].chunks) = 2
        /\ Len(w[j].calls) = 2
        /\ w[j].created \cap disk = {}
        /\ OriginalPath \in disk

\* C29: a thread exists only for a form that passes every check of
\* validate_inputs; the guard is taken only by a call whose validation
\* passed; and a call whose validation fails creates no thread and leaves
\* is_transcribing, the posted progress, temp_files and transcribed_text as
\* they were.
C29_StartOnlyWhenValid ==
    /\ [](\A j \in Jobs :
            w[j].pc # "idle" =>
                /\ w[j].form.api_key /\ w[j].form.client
                /\ w[j].form.audio_file_path /\ w[j].form.audio_exists
                /\ w[j].form.output_directory /\ w[j].form.dir_ok
                /\ w[j].form.output_filename)
    /\ [][(~is_transcribing /\ is_transcribing') =>
            /\ validation' = "ok"
            /\ Cardinality({j \in Jobs : w[j].pc = "idle" /\ w'[j].pc # "idle"}) = 1]_vars
    /\ [][validation' # validation => ~is_transcribing]_vars
    /\ [][(validation' # validation /\ validation' # "ok") =>
            UNCHANGED <<is_transcribing, transcribed_text, temp_files, disk, w>>]_vars
    /\ [](validation \notin {"none", "ok"} => ~is_transcribing)

\* C29 witness: after a job that left its text, a request for a file that
\* does not exist has been turned down.
C29_Witness ==
    /\ validation = "The selected audio file does not exist."
    /\ ~is_transcribing
    /\ FreeThreads = Jobs
    /\ transcribed_text # <<>>

====
